---- MODULE Spec2Model ----
(***************************************************************************)
(* Model of securecmd/main.c: the sandbox launcher.  main() captures the   *)
(* invoking uid/gid, runs secure_me() (namespaces, identity maps, root     *)
(* filesystem, fork, /proc, chroot, privilege drop) and then execvp()s the *)
(* target.  Every system call is a step whose outcome the environment      *)
(* chooses; the code decides what happens after that outcome.              *)
(***************************************************************************)
EXTENDS Integers, Sequences, FiniteSets, TLC

----------------------------------------------------------------------------
(* Bounds of the model *)

\* uid and gid of the invoker range over 0..MaxId
MaxId == 1
\* argc ranges over 1..MaxArgc
MaxArgc == 3
\* the target program exits with a status in 0..MaxStatus
MaxStatus == 2
\* at most MaxFaults calls are made to fail by the environment in one run
MaxFaults == 1

----------------------------------------------------------------------------
(* Program constants *)

ROOTDIR == "/mnt"

Procs == {"parent", "child"}

\* argument slot of a statement that takes no integer argument
NoArg == 0 - 1

MS_BIND == "MS_BIND"
MS_RDONLY == "MS_RDONLY"
MS_NODEV == "MS_NODEV"
MS_NOSUID == "MS_NOSUID"
MS_REMOUNT == "MS_REMOUNT"

\* One statement of secure_me: the call, its perror tag, the path it acts
\* on, its source, filesystem type, flags, integer argument, and whether
\* the code tests the result (and returns 1 on failure).
Stmt(op, tag, path, src, type, flags, arg, checked) ==
    [op |-> op, tag |-> tag, path |-> path, src |-> src, type |-> type,
     flags |-> flags, arg |-> arg, checked |-> checked]

\* DOMOUNT with the ROOTDIR prefix forgotten in mkdir
DOMOUNT_noroot(DIR, SRC, TYPE, FLAGS) ==
    << Stmt("mkdir", "mkdir_bind_" \o DIR, DIR, "", "", {}, NoArg, TRUE),
       Stmt("mount", "mount_bind_" \o DIR, ROOTDIR \o DIR, SRC, TYPE,
            FLAGS \cup {MS_NODEV, MS_NOSUID}, NoArg, TRUE),
       Stmt("remount", "mount_bind_" \o DIR, ROOTDIR \o DIR, SRC, TYPE,
            {MS_REMOUNT} \cup FLAGS \cup {MS_NODEV, MS_NOSUID}, NoArg, TRUE) >>

\* DOMOUNT with the result of mkdir not tested
DOMOUNT_mkdirignored(DIR, SRC, TYPE, FLAGS) ==
    << Stmt("mkdir", "mkdir_bind_" \o DIR, ROOTDIR \o DIR, "", "", {}, NoArg, FALSE),
       Stmt("mount", "mount_bind_" \o DIR, ROOTDIR \o DIR, SRC, TYPE,
            FLAGS \cup {MS_NODEV, MS_NOSUID}, NoArg, TRUE),
       Stmt("remount", "mount_bind_" \o DIR, ROOTDIR \o DIR, SRC, TYPE,
            {MS_REMOUNT} \cup FLAGS \cup {MS_NODEV, MS_NOSUID}, NoArg, TRUE) >>

\* DOMOUNT with the result of the first mount not tested
DOMOUNT_unchecked(DIR, SRC, TYPE, FLAGS) ==
    << Stmt("mkdir", "mkdir_bind_" \o DIR, ROOTDIR \o DIR, "", "", {}, NoArg, TRUE),
       Stmt("mount", "mount_bind_" \o DIR, ROOTDIR \o DIR, SRC, TYPE,
            FLAGS \cup {MS_NODEV, MS_NOSUID}, NoArg, FALSE),
       Stmt("remount", "mount_bind_" \o DIR, ROOTDIR \o DIR, SRC, TYPE,
            {MS_REMOUNT} \cup FLAGS \cup {MS_NODEV, MS_NOSUID}, NoArg, TRUE) >>

\* #define DOMOUNT(DIR, SRC, TYPE, FLAGS)
DOMOUNT(DIR, SRC, TYPE, FLAGS) ==
    << Stmt("mkdir", "mkdir_bind_" \o DIR, ROOTDIR \o DIR, "", "", {}, NoArg, TRUE),
       Stmt("mount", "mount_bind_" \o DIR, ROOTDIR \o DIR, SRC, TYPE,
            FLAGS \cup {MS_NODEV, MS_NOSUID}, NoArg, TRUE),
       Stmt("remount", "mount_bind_" \o DIR, ROOTDIR \o DIR, SRC, TYPE,
            {MS_REMOUNT} \cup FLAGS \cup {MS_NODEV, MS_NOSUID}, NoArg, TRUE) >>

\* #define BINDMOUNT_EX(SRC, DIR, FLAGS)
BINDMOUNT_EX(SRC, DIR, FLAGS) == DOMOUNT(DIR, SRC, "NULL", {MS_BIND} \cup FLAGS)

\* BINDMOUNT without MS_RDONLY
BINDMOUNT_rw(DIR) == BINDMOUNT_EX(DIR, DIR, {})

\* #define BINDMOUNT(DIR)
BINDMOUNT(DIR) == BINDMOUNT_EX(DIR, DIR, {MS_RDONLY})

\* #define COPYFILE(FILE)
COPYFILE(FILE) ==
    << Stmt("fcopy", "Error copying file " \o FILE, ROOTDIR \o FILE, FILE, "", {},
            NoArg, TRUE) >>

\* the namespace part writing gid_map before "deny" goes to setgroups
NamespaceInit_gidfirst(u, g) ==
    << Stmt("unshare", "CLONE_NEWUSER", "", "", "", {"CLONE_NEWUSER", "CLONE_NEWPID"},
            NoArg, TRUE),
       Stmt("open", "uid_map_open", "/proc/self/uid_map", "", "", {}, NoArg, TRUE),
       Stmt("dprintf", "uid_map_dprintf", "/proc/self/uid_map", "", "", {}, u, TRUE),
       Stmt("open", "gid_map_open", "/proc/self/gid_map", "", "", {}, NoArg, TRUE),
       Stmt("dprintf", "gid_map_dprintf", "/proc/self/gid_map", "", "", {}, g, TRUE),
       Stmt("open", "setgroups_open", "/proc/self/setgroups", "", "", {}, NoArg, TRUE),
       Stmt("dprintf", "setgroups_dprintf", "/proc/self/setgroups", "", "", {},
            NoArg, TRUE),
       Stmt("unshare", "CLONE_NEWNS", "", "", "", {"CLONE_NEWNS"}, NoArg, TRUE) >>

\* The namespace part of secure_me (main.c:61-102)
NamespaceInit(u, g) ==
    << Stmt("unshare", "CLONE_NEWUSER", "", "", "", {"CLONE_NEWUSER", "CLONE_NEWPID"},
            NoArg, TRUE),
       Stmt("open", "uid_map_open", "/proc/self/uid_map", "", "", {}, NoArg, TRUE),
       Stmt("dprintf", "uid_map_dprintf", "/proc/self/uid_map", "", "", {}, u, TRUE),
       Stmt("open", "setgroups_open", "/proc/self/setgroups", "", "", {}, NoArg, TRUE),
       Stmt("dprintf", "setgroups_dprintf", "/proc/self/setgroups", "", "", {},
            NoArg, TRUE),
       Stmt("open", "gid_map_open", "/proc/self/gid_map", "", "", {}, NoArg, TRUE),
       Stmt("dprintf", "gid_map_dprintf", "/proc/self/gid_map", "", "", {}, g, TRUE),
       Stmt("unshare", "CLONE_NEWNS", "", "", "", {"CLONE_NEWNS"}, NoArg, TRUE) >>

\* The allow-listed system directories, in source order (main.c:114-118)
SysDirs == << "/usr", "/bin", "/sbin", "/lib", "/lib64" >>

\* The copied configuration files, in source order (main.c:126-129)
CopiedFiles == << "/etc/resolv.conf", "/etc/hosts", "/etc/passwd", "/etc/group" >>

\* The root filesystem part of secure_me (main.c:104-129)
RootFs(appdir) ==
    << Stmt("mount", "mount_root", ROOTDIR, "tmpfs", "tmpfs", {MS_NOSUID, MS_NODEV},
            NoArg, TRUE),
       Stmt("mkdir", "mkdir_etc", ROOTDIR \o "/etc", "", "", {}, NoArg, TRUE) >>
    \o BINDMOUNT(SysDirs[1]) \o BINDMOUNT(SysDirs[2]) \o BINDMOUNT(SysDirs[3])
    \o BINDMOUNT(SysDirs[4]) \o BINDMOUNT(SysDirs[5])
    \o BINDMOUNT_EX(appdir, "/app", {})
    \o << Stmt("mkdir", "", ROOTDIR \o "/app/.tmp", "", "", {}, NoArg, FALSE),
          Stmt("chmod", "", ROOTDIR \o "/app/.tmp", "", "", {}, NoArg, FALSE),
          Stmt("symlink", "", ROOTDIR \o "/tmp", "/app/.tmp", "", {}, NoArg, FALSE) >>
    \o COPYFILE(CopiedFiles[1]) \o COPYFILE(CopiedFiles[2])
    \o COPYFILE(CopiedFiles[3]) \o COPYFILE(CopiedFiles[4])

\* fork() (main.c:131-134)
ForkStmt == << Stmt("fork", "fork", "", "", "", {}, NoArg, TRUE) >>

\* the child's part dropping the gid before the uid
ChildSetup_gidfirst(u, g) ==
    DOMOUNT("/proc", "none", "proc", {})
    \o << Stmt("remount", "", ROOTDIR, "tmpfs", "tmpfs",
               {MS_REMOUNT, MS_NODEV, MS_NOSUID, MS_RDONLY}, NoArg, FALSE),
          Stmt("chroot", "chroot", ROOTDIR, "", "", {}, NoArg, TRUE),
          Stmt("chdir", "chdir_root", "/app", "", "", {}, NoArg, TRUE),
          Stmt("setresgid", "setresgid", "", "", "", {}, g, TRUE),
          Stmt("setresuid", "setresuid", "", "", "", {}, u, TRUE) >>

\* What only the child runs (main.c:141-163)
ChildSetup(u, g) ==
    DOMOUNT("/proc", "none", "proc", {})
    \o << Stmt("remount", "", ROOTDIR, "tmpfs", "tmpfs",
               {MS_REMOUNT, MS_NODEV, MS_NOSUID, MS_RDONLY}, NoArg, FALSE),
          Stmt("chroot", "chroot", ROOTDIR, "", "", {}, NoArg, TRUE),
          Stmt("chdir", "chdir_root", "/app", "", "", {}, NoArg, TRUE),
          Stmt("setresuid", "setresuid", "", "", "", {}, u, TRUE),
          Stmt("setresgid", "setresgid", "", "", "", {}, g, TRUE) >>

\* secure_me forking before the root filesystem is built
secure_me_forkfirst(u, g, appdir) ==
    NamespaceInit(u, g) \o ForkStmt \o RootFs(appdir) \o ChildSetup(u, g)

\* static int secure_me(int uid, int gid, const char *appdir): its statements
\* in program order
secure_me(u, g, appdir) ==
    NamespaceInit(u, g) \o RootFs(appdir) \o ForkStmt \o ChildSetup(u, g)

----------------------------------------------------------------------------
(* State *)

VARIABLES
    prog,       \* the statements the process executes, in program order
    argc,       \* number of command-line words, argv[0] included
    uid, gid,   \* getuid(), getgid() as captured by main
    phase,      \* per process: where it is in main
    ip,         \* per process: index of the next statement of secure_me
    rv,         \* per process: value secure_me returned to main
    term,       \* per process: "none", "running", "exited" or "signaled"
    status,     \* per process: exit status once exited, signal once signaled
    image,      \* per process: the program it runs, "launcher" or the target
    root, cwd,  \* per process: root directory and working directory
    log,        \* every call made so far, in order, with its outcome
    diag,       \* the diagnostics printed so far
    uid_map, gid_map, setgroups,  \* the user namespace's identity files
    nspaces,    \* namespaces unshared so far
    dirs, links, files,           \* what exists under ROOTDIR
    mounts,     \* the mount table of the new mount namespace
    hostmod,    \* what was created or changed in directories of the host
    faults      \* number of calls the environment has made fail

vars == << prog, argc, uid, gid, phase, ip, rv, term, status, image, root, cwd, log, diag,
           uid_map, gid_map, setgroups, nspaces, dirs, links, files, mounts, hostmod,
           faults >>

procvars == << phase, ip, rv, term, status, image, root, cwd >>
fsvars == << uid_map, gid_map, setgroups, nspaces, dirs, links, files, mounts,
            hostmod >>

\* argv[1] and argv[2]; argv[argc] is NULL
appdir == IF argc >= 2 THEN "APPDIR" ELSE "NULL"
target == IF argc >= 3 THEN "TARGET" ELSE "NULL"

\* the statements the running launcher executes
Prog == prog

Init ==
    /\ argc \in 1..MaxArgc
    /\ uid \in 0..MaxId
    /\ gid \in 0..MaxId
    /\ prog = secure_me(uid, gid, appdir)
    /\ phase = [p \in Procs |-> IF p = "parent" THEN "main" ELSE "none"]
    /\ ip = [p \in Procs |-> 1]
    /\ rv = [p \in Procs |-> 0]
    /\ term = [p \in Procs |-> IF p = "parent" THEN "running" ELSE "none"]
    /\ status = [p \in Procs |-> 0]
    /\ image = [p \in Procs |-> "launcher"]
    /\ root = [p \in Procs |-> "/"]
    /\ cwd = [p \in Procs |-> "."]
    /\ log = << >>
    /\ diag = << >>
    /\ uid_map = << >>
    /\ gid_map = << >>
    /\ setgroups = "allow"
    /\ nspaces = {}
    /\ dirs = {}
    /\ links = {}
    /\ files = {}
    /\ mounts = {}
    /\ hostmod = {}
    /\ faults = 0

----------------------------------------------------------------------------
(* The calls *)

\* a map line that maps the namespace's id 0 instead of the id itself
MapLine_root(id) == << 0, id, 1 >>

\* The line "%d %d 1\n" that secure_me prints into uid_map and gid_map
MapLine(id) == << id, id, 1 >>

\* The kernel refuses the call whatever the environment is: mkdir of an
\* existing path, a bind mount without a source
Refused(s) ==
    \/ s.op = "mkdir" /\ s.path \in dirs
    \/ s.op = "mount" /\ MS_BIND \in s.flags /\ s.src = "NULL"

\* errno values told apart for a failing call
Errnos(s) ==
    IF Refused(s) THEN IF s.op = "mkdir" THEN {"EEXIST"} ELSE {"EINVAL"}
    ELSE IF s.op = "mount" /\ MS_BIND \in s.flags THEN {"ENOENT", "EPERM"}
    ELSE {"EPERM"}

\* The outcomes a call can have here
Outcomes(s) ==
    (IF Refused(s) THEN {} ELSE {[ok |-> TRUE, err |-> ""]})
    \cup (IF Refused(s) \/ faults < MaxFaults
          THEN {[ok |-> FALSE, err |-> e] : e \in Errnos(s)} ELSE {})

\* Returns with the tests of the dprintf results left out
Returns_nodprintf(s, ok) == s.checked /\ ~ok /\ s.op # "dprintf"

\* Returns with the test of setresgid's result left out
Returns_nosetresgid(s, ok) == s.checked /\ ~ok /\ s.op # "setresgid"

\* The failing call makes secure_me print a diagnostic and return 1
Returns(s, ok) == s.checked /\ ~ok

Entry(p, s, o, ret) ==
    [proc |-> p, op |-> s.op, tag |-> s.tag, path |-> s.path, src |-> s.src,
     type |-> s.type, flags |-> s.flags, arg |-> s.arg, ok |-> o.ok, err |-> o.err,
     ret |-> ret]

\* secure_me returns 1 to main after perror/printf, or goes on
Continue(p, s, ok) ==
    IF Returns(s, ok)
    THEN /\ diag' = Append(diag, [proc |-> p, msg |-> s.tag])
         /\ phase' = [phase EXCEPT ![p] = "returned"]
         /\ rv' = [rv EXCEPT ![p] = 1]
         /\ ip' = ip
    ELSE /\ diag' = diag
         /\ phase' = phase
         /\ rv' = rv
         /\ ip' = [ip EXCEPT ![p] = ip[p] + 1]

\* path is dir or lies below it
Under(path, dir) ==
    \/ path = dir
    \/ Len(path) > Len(dir) /\ SubSeq(path, 1, Len(dir) + 1) = dir \o "/"

\* Where a name created or changed at path lands: in the host directory
\* bound over it when path lies inside a bind mount, in the tmpfs of the
\* sandbox root when it lies inside ROOTDIR once that is mounted, else in
\* the host's own tree
Backing(path) ==
    LET binds == {m \in mounts : MS_BIND \in m.flags /\ Under(path, m.at)
                                  /\ path # m.at}
    IN IF binds # {} THEN {m.src : m \in binds}
       ELSE IF path # ROOTDIR /\ Under(path, ROOTDIR)
               /\ \E m \in mounts : m.at = ROOTDIR
       THEN {}
       ELSE {"/"}

\* The host directories a successful call writes into
HostWrites(s) ==
    IF s.op \in {"mkdir", "chmod", "symlink", "fcopy"}
    THEN {[host |-> h, path |-> s.path, op |-> s.op] : h \in Backing(s.path)}
    ELSE {}

\* What a successful call changes
Effect(p, s) ==
    /\ nspaces' = IF s.op = "unshare" THEN nspaces \cup s.flags ELSE nspaces
    /\ uid_map' = IF s.op = "dprintf" /\ s.path = "/proc/self/uid_map"
                  THEN Append(uid_map, MapLine(s.arg)) ELSE uid_map
    /\ gid_map' = IF s.op = "dprintf" /\ s.path = "/proc/self/gid_map"
                  THEN Append(gid_map, MapLine(s.arg)) ELSE gid_map
    /\ setgroups' = IF s.op = "dprintf" /\ s.path = "/proc/self/setgroups"
                    THEN "deny" ELSE setgroups
    /\ dirs' = IF s.op = "mkdir" THEN dirs \cup {s.path} ELSE dirs
    /\ links' = IF s.op = "symlink" THEN links \cup {<< s.path, s.src >>} ELSE links
    /\ mounts' = IF s.op \in {"mount", "remount"}
                 THEN {m \in mounts : m.at # s.path}
                      \cup {[at |-> s.path, src |-> s.src, type |-> s.type,
                             flags |-> s.flags \ {MS_REMOUNT}]}
                 ELSE mounts
    /\ root' = IF s.op = "chroot" THEN [root EXCEPT ![p] = s.path] ELSE root
    /\ cwd' = IF s.op = "chdir" THEN [cwd EXCEPT ![p] = s.path] ELSE cwd
    /\ files' = files
    /\ hostmod' = hostmod \cup HostWrites(s)

Running(p) ==
    /\ phase[p] = "secure_me"
    /\ term[p] = "running"
    /\ ip[p] <= Len(Prog)

\* int main: the usage banner, getuid/getgid, the call of secure_me (main.c:166-173)
Main ==
    /\ phase["parent"] = "main"
    /\ diag' = IF argc < 3 THEN Append(diag, [proc |-> "parent", msg |-> "Usage"])
               ELSE diag
    /\ phase' = [phase EXCEPT !["parent"] = "secure_me"]
    /\ UNCHANGED << prog, argc, uid, gid, ip, rv, term, status, image, root, cwd, log,
                    fsvars, faults >>

\* One system call of secure_me with its test of the result
Syscall(p) ==
    /\ Running(p)
    /\ LET s == Prog[ip[p]] IN
       /\ s.op \notin {"fcopy", "fork"}
       /\ \E o \in Outcomes(s) :
            /\ log' = Append(log, Entry(p, s, o, IF o.ok THEN 0 ELSE 0 - 1))
            /\ faults' = IF o.ok \/ Refused(s) THEN faults ELSE faults + 1
            /\ IF o.ok THEN Effect(p, s)
               ELSE UNCHANGED << fsvars, root, cwd >>
            /\ Continue(p, s, o.ok)
    /\ UNCHANGED << prog, argc, uid, gid, term, status, image >>

\* What a call with undefined behaviour can do: kill the process with a
\* signal, or return either result
Undefined ==
    {[ret |-> 0, crash |-> TRUE], [ret |-> 0, crash |-> FALSE],
     [ret |-> 0 - 1, crash |-> FALSE]}

\* static int fcopy(fn1, fn2), given whether fopen(fn1), fopen(fn2), fread
\* and fwrite work: neither FILE* is tested before use, a short fwrite
\* returns -1, and a read error ends the loop like end-of-file (main.c:15-32)
fcopy(f1, f2, rd, wr) ==
    IF ~f1 \/ ~f2 THEN Undefined
    ELSE IF ~wr THEN {[ret |-> 0 - 1, crash |-> FALSE]}
    ELSE {[ret |-> 0, crash |-> FALSE]}

\* The environments of one copy: all well, or one thing failing
CopyEnvs ==
    {[f1 |-> TRUE, f2 |-> TRUE, rd |-> TRUE, wr |-> TRUE, err |-> ""]}
    \cup (IF faults < MaxFaults
          THEN {[f1 |-> FALSE, f2 |-> TRUE, rd |-> TRUE, wr |-> TRUE, err |-> "src_open"],
                [f1 |-> TRUE, f2 |-> FALSE, rd |-> TRUE, wr |-> TRUE, err |-> "dst_open"],
                [f1 |-> TRUE, f2 |-> TRUE, rd |-> FALSE, wr |-> TRUE, err |-> "read"],
                [f1 |-> TRUE, f2 |-> TRUE, rd |-> TRUE, wr |-> FALSE, err |-> "write"]}
          ELSE {})

\* A process killed by a signal
Killed(p, sig) ==
    /\ term' = [term EXCEPT ![p] = "signaled"]
    /\ status' = [status EXCEPT ![p] = sig]

\* A process leaving through exit(code) or a return from main
Exited(p, code) ==
    /\ term' = [term EXCEPT ![p] = "exited"]
    /\ status' = [status EXCEPT ![p] = code % 256]

\* COPYFILE(FILE): fcopy and the test of its result (main.c:53-58, 126-129)
Copy(p) ==
    /\ Running(p)
    /\ LET s == Prog[ip[p]] IN
       /\ s.op = "fcopy"
       /\ \E e \in CopyEnvs : \E r \in fcopy(e.f1, e.f2, e.rd, e.wr) :
            /\ log' = Append(log, Entry(p, s, [ok |-> e.err = "", err |-> e.err],
                                        IF r.crash THEN 0 - 2 ELSE r.ret))
            /\ faults' = IF e.err = "" THEN faults ELSE faults + 1
            /\ files' = IF e.f2 THEN files \cup {s.path} ELSE files
            /\ hostmod' = IF e.f2 THEN hostmod \cup HostWrites(s) ELSE hostmod
            /\ IF r.crash
               THEN /\ Killed(p, 11)
                    /\ phase' = [phase EXCEPT ![p] = "terminated"]
                    /\ UNCHANGED << diag, rv, ip >>
               ELSE /\ Continue(p, s, r.ret = 0)
                    /\ UNCHANGED << term, status >>
    /\ UNCHANGED << prog, argc, uid, gid, image, root, cwd, uid_map, gid_map, setgroups,
                    nspaces, dirs, links, mounts >>

\* fork() without the parent's branch: the parent goes on like the child
Fork_parentgoeson ==
    /\ Running("parent")
    /\ LET s == Prog[ip["parent"]] IN
       /\ s.op = "fork"
       /\ \E o \in Outcomes(s) :
            /\ log' = Append(log, Entry("parent", s, o, IF o.ok THEN 1 ELSE 0 - 1))
            /\ faults' = IF o.ok THEN faults ELSE faults + 1
            /\ IF o.ok
               THEN /\ phase' = [phase EXCEPT !["child"] = "secure_me"]
                    /\ ip' = [ip EXCEPT !["child"] = ip["parent"] + 1,
                                        !["parent"] = ip["parent"] + 1]
                    /\ term' = [term EXCEPT !["child"] = "running"]
                    /\ root' = [root EXCEPT !["child"] = root["parent"]]
                    /\ cwd' = [cwd EXCEPT !["child"] = cwd["parent"]]
                    /\ UNCHANGED << diag, rv >>
               ELSE /\ Continue("parent", s, FALSE)
                    /\ UNCHANGED << term, root, cwd >>
    /\ UNCHANGED << prog, argc, uid, gid, status, image, fsvars >>

\* fork() and its three branches (main.c:131-139)
Fork ==
    /\ Running("parent")
    /\ LET s == Prog[ip["parent"]] IN
       /\ s.op = "fork"
       /\ \E o \in Outcomes(s) :
            /\ log' = Append(log, Entry("parent", s, o, IF o.ok THEN 1 ELSE 0 - 1))
            /\ faults' = IF o.ok THEN faults ELSE faults + 1
            /\ IF o.ok
               THEN /\ phase' = [phase EXCEPT !["parent"] = "waitpid",
                                              !["child"] = "secure_me"]
                    /\ ip' = [ip EXCEPT !["child"] = ip["parent"] + 1]
                    /\ term' = [term EXCEPT !["child"] = "running"]
                    /\ root' = [root EXCEPT !["child"] = root["parent"]]
                    /\ cwd' = [cwd EXCEPT !["child"] = cwd["parent"]]
                    /\ UNCHANGED << diag, rv >>
               ELSE /\ Continue("parent", s, FALSE)
                    /\ UNCHANGED << term, root, cwd >>
    /\ UNCHANGED << prog, argc, uid, gid, status, image, fsvars >>

\* a waitpid that returns without blocking (as with WNOHANG)
Waitpid_nohang ==
    /\ phase["parent"] = "waitpid"
    /\ \E ok \in BOOLEAN :
         log' = Append(log, [proc |-> "parent", op |-> "waitpid", tag |-> "",
                             path |-> "", src |-> "", type |-> "", flags |-> {},
                             arg |-> NoArg,
                             ok |-> ok, err |-> IF ok THEN "" ELSE "ECHILD",
                             ret |-> IF ok THEN 1 ELSE 0 - 1])
    /\ phase' = [phase EXCEPT !["parent"] = "exit"]
    /\ UNCHANGED << prog, argc, uid, gid, ip, rv, term, status, image, root, cwd, diag,
                    fsvars, faults >>

\* waitpid(fpid, NULL, 0): blocks until the child is gone; result not used
\* (main.c:136)
Waitpid ==
    /\ phase["parent"] = "waitpid"
    /\ term["child"] \in {"exited", "signaled"}
    /\ \E ok \in BOOLEAN :
         log' = Append(log, [proc |-> "parent", op |-> "waitpid", tag |-> "",
                             path |-> "", src |-> "", type |-> "", flags |-> {},
                             arg |-> NoArg,
                             ok |-> ok, err |-> IF ok THEN "" ELSE "ECHILD",
                             ret |-> IF ok THEN 1 ELSE 0 - 1])
    /\ phase' = [phase EXCEPT !["parent"] = "exit"]
    /\ UNCHANGED << prog, argc, uid, gid, ip, rv, term, status, image, root, cwd, diag,
                    fsvars, faults >>

\* a parent that forwards the child's status
ParentExitCode_forward(childStatus) == childStatus

\* the status the parent passes to exit() (main.c:137)
ParentExitCode(childStatus) == 0

\* exit(0) in the parent (main.c:137)
Exit0 ==
    /\ phase["parent"] = "exit"
    /\ Exited("parent", ParentExitCode(status["child"]))
    /\ phase' = [phase EXCEPT !["parent"] = "terminated"]
    /\ UNCHANGED << prog, argc, uid, gid, ip, rv, image, root, cwd, log, diag, fsvars, faults >>

\* Control reaches the closing brace of secure_me, which has no return
\* statement: the value main reads is indeterminate (main.c:164)
FallOff(p) ==
    /\ phase[p] = "secure_me"
    /\ term[p] = "running"
    /\ ip[p] > Len(Prog)
    /\ \E v \in {0, 1} : rv' = [rv EXCEPT ![p] = v]
    /\ phase' = [phase EXCEPT ![p] = "returned"]
    /\ UNCHANGED << prog, argc, uid, gid, ip, term, status, image, root, cwd, log, diag,
                    fsvars, faults >>

\* if (secure_me(...)) return 1; (main.c:173-175)
MainReturn(p) ==
    /\ phase[p] = "returned"
    /\ rv[p] # 0
    /\ Exited(p, 1)
    /\ phase' = [phase EXCEPT ![p] = "terminated"]
    /\ UNCHANGED << prog, argc, uid, gid, ip, rv, image, root, cwd, log, diag, fsvars, faults >>

\* a main that ends with "execvp(...); return 0;"
MainExecReturn_zero(ret) == 0

\* what main returns once execvp has returned ret (main.c:177)
MainExecReturn(ret) == ret

\* execvp(argv[2], argv + 2) with a null file name is undefined; with a
\* name it replaces the image or returns -1
ExecOutcomes ==
    IF target = "NULL" THEN {r \in Undefined : r.ret # 0 \/ r.crash}
    ELSE {[ret |-> 0, crash |-> FALSE]}
         \cup (IF faults < MaxFaults THEN {[ret |-> 0 - 1, crash |-> FALSE]} ELSE {})

\* return execvp(argv[2], argv + 2); (main.c:177)
Execvp(p) ==
    /\ phase[p] = "returned"
    /\ rv[p] = 0
    /\ \E r \in ExecOutcomes :
         /\ log' = Append(log, [proc |-> p, op |-> "execvp", tag |-> "", path |-> target,
                                src |-> "", type |-> "", flags |-> {}, arg |-> NoArg,
                                ok |-> (r.ret = 0 /\ ~r.crash),
                                err |-> IF r.ret = 0 /\ ~r.crash THEN "" ELSE "ENOENT",
                                ret |-> IF r.crash THEN 0 - 2 ELSE r.ret])
         /\ faults' = IF (r.ret = 0 /\ ~r.crash) \/ target = "NULL" THEN faults
                      ELSE faults + 1
         /\ IF r.crash
            THEN /\ Killed(p, 11)
                 /\ phase' = [phase EXCEPT ![p] = "terminated"]
                 /\ image' = image
            ELSE IF r.ret = 0
            THEN /\ image' = [image EXCEPT ![p] = target]
                 /\ phase' = [phase EXCEPT ![p] = "target"]
                 /\ UNCHANGED << term, status >>
            ELSE /\ Exited(p, MainExecReturn(r.ret))
                 /\ phase' = [phase EXCEPT ![p] = "terminated"]
                 /\ image' = image
    /\ UNCHANGED << prog, argc, uid, gid, ip, rv, root, cwd, diag, fsvars >>

\* The target program runs and exits with a status of its own
TargetExit(p) ==
    /\ phase[p] = "target"
    /\ \E n \in 0..MaxStatus : Exited(p, n)
    /\ phase' = [phase EXCEPT ![p] = "terminated"]
    /\ UNCHANGED << prog, argc, uid, gid, ip, rv, image, root, cwd, log, diag, fsvars, faults >>

Next ==
    \/ Main
    \/ \E p \in Procs : Syscall(p)
    \/ \E p \in Procs : Copy(p)
    \/ Fork
    \/ Waitpid
    \/ Exit0
    \/ \E p \in Procs : FallOff(p)
    \/ \E p \in Procs : MainReturn(p)
    \/ \E p \in Procs : Execvp(p)
    \/ \E p \in Procs : TargetExit(p)

Spec == Init /\ [][Next]_vars

\* The uses of the mount primitive in secure_me (main.c:114-120, 141)
MountUses(ad) ==
    {BINDMOUNT(SysDirs[k]) : k \in 1..Len(SysDirs)}
    \cup {BINDMOUNT_EX(ad, "/app", {}), DOMOUNT("/proc", "none", "proc", {})}

\* The mount primitive applied twice to one path of a fresh sandbox root:
\* the root tmpfs is mounted, then one use of DOMOUNT is executed two times
InitTwice ==
    /\ argc \in 2..MaxArgc
    /\ uid \in 0..MaxId
    /\ gid \in 0..MaxId
    /\ \E use \in MountUses(appdir) : prog = SubSeq(RootFs(appdir), 1, 1) \o use \o use
    /\ phase = [p \in Procs |-> IF p = "parent" THEN "secure_me" ELSE "none"]
    /\ ip = [p \in Procs |-> 1]
    /\ rv = [p \in Procs |-> 0]
    /\ term = [p \in Procs |-> IF p = "parent" THEN "running" ELSE "none"]
    /\ status = [p \in Procs |-> 0]
    /\ image = [p \in Procs |-> "launcher"]
    /\ root = [p \in Procs |-> "/"]
    /\ cwd = [p \in Procs |-> "."]
    /\ log = << >>
    /\ diag = << >>
    /\ uid_map = << >>
    /\ gid_map = << >>
    /\ setgroups = "allow"
    /\ nspaces = {}
    /\ dirs = {}
    /\ links = {}
    /\ files = {}
    /\ mounts = {}
    /\ hostmod = {}
    /\ faults = 0

NextTwice == \E p \in Procs : Syscall(p)

TwiceSpec == InitTwice /\ [][NextTwice]_vars

\* The parent is a running process: once waitpid can return it returns, and
\* exit(0) follows
FairSpec == Spec /\ WF_vars(Waitpid) /\ WF_vars(Exit0)

----------------------------------------------------------------------------
(* Reading the log *)

Idx == 1..Len(log)

Gone(p) == term[p] \in {"exited", "signaled"}

ExitedWith(p, code) == term[p] = "exited" /\ status[p] = code

SetupOps ==
    {"unshare", "open", "dprintf", "mkdir", "mount", "remount", "chmod", "symlink",
     "fcopy", "fork", "chroot", "chdir", "setresuid", "setresgid"}

ForkDone == \E i \in Idx : log[i].op = "fork" /\ log[i].ok

\* process p made the call op on path before log position i, and it worked
DoneBefore(i, p, op, path) ==
    \E j \in 1..(i - 1) :
        log[j].proc = p /\ log[j].op = op /\ log[j].path = path /\ log[j].ok

IsRootRemount(e) == e.op = "remount" /\ e.path = ROOTDIR

IsSysBind(e) ==
    /\ e.op = "mount"
    /\ MS_BIND \in e.flags
    /\ \E k \in 1..Len(SysDirs) : e.src = SysDirs[k]

----------------------------------------------------------------------------
(* C1 *)

\* C1 (as claimed): whenever some setup step has failed, before the fork
\* or after it in the child, the original process, once gone, has exited
\* with status 1.
C1_SetupFailureExits1 ==
    (Gone("parent") /\ \E i \in Idx : log[i].op \in SetupOps /\ ~log[i].ok)
        => ExitedWith("parent", 1)

----------------------------------------------------------------------------
(* C2 *)

\* C2: once fork has succeeded, the parent, when it is gone, has exited
\* with status 0, whatever happened to the child (a failed setup step, a
\* failed exec, a target exiting with any status).
C2_ParentExits0 ==
    (ForkDone /\ Gone("parent")) => ExitedWith("parent", 0)

\* the child ran the target, which exited non-zero, and the parent has exited
C2_Witness ==
    /\ ForkDone
    /\ Gone("parent")
    /\ image["child"] = "TARGET"
    /\ term["child"] = "exited"
    /\ status["child"] # 0

----------------------------------------------------------------------------
(* C3 *)

\* C3: every execvp call is made by the child, after chroot(ROOTDIR),
\* chdir("/app"), setresuid and setresgid each succeeded in the child, in
\* that order; the parent never calls execvp.
C3_ExecOnlyConfined ==
    \A i \in Idx :
        log[i].op = "execvp" =>
            /\ log[i].proc = "child"
            /\ \E d \in 1..(i - 1) :
                 /\ log[d].proc = "child" /\ log[d].op = "setresgid" /\ log[d].ok
                 /\ log[d].arg = gid
                 /\ \E c \in 1..(d - 1) :
                      /\ log[c].proc = "child" /\ log[c].op = "setresuid" /\ log[c].ok
                      /\ log[c].arg = uid
                      /\ \E b \in 1..(c - 1) :
                           /\ log[b].proc = "child" /\ log[b].op = "chdir" /\ log[b].ok
                           /\ log[b].path = "/app"
                           /\ DoneBefore(b, "child", "chroot", ROOTDIR)
            /\ root["child"] = ROOTDIR
            /\ cwd["child"] = "/app"

\* the child has exec'd the target
C3_Witness ==
    /\ image["child"] = "TARGET"
    /\ \E i \in Idx : log[i].op = "execvp" /\ log[i].ok

----------------------------------------------------------------------------
(* C4 *)

\* C4 (as claimed): whenever the child calls chroot, the read-only remount
\* of the sandbox root has succeeded before.
C4_RootReadOnlyBeforeChroot ==
    \A i \in Idx :
        log[i].op = "chroot" =>
            \E j \in 1..(i - 1) : IsRootRemount(log[j]) /\ log[j].ok

----------------------------------------------------------------------------
(* C5 *)

ExecCalls(p) == {i \in Idx : log[i].op = "execvp" /\ log[i].proc = p}

\* what holds of a process whose execvp failed, the diagnostic apart
ExecFailureEndsProcess(p) ==
    /\ Gone(p)
    /\ status[p] # 0
    /\ image[p] = "launcher"
    /\ Cardinality(ExecCalls(p)) = 1

\* C5 (as claimed): a failed execvp makes the process report the failure
\* (print a diagnostic) and terminate with a non-zero status, and no other
\* program is exec'd.
C5_ExecFailureReported ==
    \A i \in Idx :
        (log[i].op = "execvp" /\ ~log[i].ok) =>
            /\ ExecFailureEndsProcess(log[i].proc)
            /\ \E k \in 1..Len(diag) :
                 diag[k].proc = log[i].proc /\ diag[k].msg = "execvp"

\* C5 (amended): a failed execvp makes the process terminate with a
\* non-zero status (exit status 255 from main returning -1, or death by
\* signal when the target argument is missing), without any diagnostic
\* after the fork; no other program is exec'd.
C5_ExecFailureNonZero ==
    \A i \in Idx :
        (log[i].op = "execvp" /\ ~log[i].ok) =>
            /\ ExecFailureEndsProcess(log[i].proc)
            /\ log[i].ret = 0 - 1 => ExitedWith(log[i].proc, 255)
            /\ \A k \in 1..Len(diag) : diag[k].proc # log[i].proc

\* execvp of a present target failed in the child
C5_Witness ==
    \E i \in Idx :
        /\ log[i].op = "execvp" /\ ~log[i].ok /\ log[i].path = "TARGET"
        /\ ExitedWith("child", 255)

----------------------------------------------------------------------------
(* C6 *)

MapWrites(path) == {i \in Idx : log[i].op = "dprintf" /\ log[i].path = path}

\* C6: at most one line is in uid_map and one in gid_map, each mapping the
\* captured id to itself with count 1; neither map is written twice; and
\* setresuid/setresgid are passed the ids the maps were written with.
C6_OneIdentityMapped ==
    /\ Len(uid_map) <= 1
    /\ Len(gid_map) <= 1
    /\ \A k \in 1..Len(uid_map) : uid_map[k] = << uid, uid, 1 >>
    /\ \A k \in 1..Len(gid_map) : gid_map[k] = << gid, gid, 1 >>
    /\ Cardinality(MapWrites("/proc/self/uid_map")) <= 1
    /\ Cardinality(MapWrites("/proc/self/gid_map")) <= 1
    /\ \A i \in Idx :
         /\ log[i].op = "setresuid" =>
               /\ Len(uid_map) = 1
               /\ log[i].arg = uid_map[1][1] /\ log[i].arg = uid_map[1][2]
         /\ log[i].op = "setresgid" =>
               /\ Len(gid_map) = 1
               /\ log[i].arg = gid_map[1][1] /\ log[i].arg = gid_map[1][2]

\* both maps are written and the child has set its uid and gid, uid # gid
C6_Witness ==
    /\ uid # gid
    /\ Len(uid_map) = 1 /\ Len(gid_map) = 1
    /\ \E i \in Idx : log[i].op = "setresgid" /\ log[i].ok

----------------------------------------------------------------------------
(* C7 *)

ForkCalls == {i \in Idx : log[i].op = "fork"}

ChildOnlyOps == {"chroot", "chdir", "setresuid", "setresgid"}

\* the calls and paths of the root filesystem part (they do not depend on
\* the application directory, which is only a mount source)
RootFsCalls == RootFs("APPDIR")

\* the statements of the root filesystem part are log[i-n .. i-1], in order
RootFsBuiltBefore(i) ==
    LET n == Len(RootFsCalls) IN
    /\ i > n
    /\ \A k \in 1..n :
         /\ log[i - n + k - 1].op = RootFsCalls[k].op
         /\ log[i - n + k - 1].path = RootFsCalls[k].path
         /\ log[i - n + k - 1].proc = "parent"

\* C7: fork is called at most once, and exactly once in a run that execs;
\* it is called after unshare(CLONE_NEWPID) succeeded and after every
\* statement of the root filesystem part ran; /proc is touched only by the
\* child; after a failed fork nothing more is attempted.
C7_ForkOnceAfterRootFs ==
    /\ Cardinality(ForkCalls) <= 1
    /\ \A i \in Idx :
         /\ log[i].op = "fork" =>
               /\ \E j \in 1..(i - 1) :
                    log[j].op = "unshare" /\ "CLONE_NEWPID" \in log[j].flags /\ log[j].ok
               /\ RootFsBuiltBefore(i)
               /\ ~log[i].ok => i = Len(log)
         /\ (log[i].path = ROOTDIR \o "/proc" \/ IsRootRemount(log[i])
               \/ log[i].op \in ChildOnlyOps) =>
               /\ log[i].proc = "child"
               /\ \E j \in 1..(i - 1) : log[j].op = "fork" /\ log[j].ok
         /\ log[i].op = "execvp" => Cardinality({j \in ForkCalls : log[j].ok}) = 1

\* the child, forked once, has mounted /proc
C7_Witness ==
    /\ ForkDone
    /\ \E i \in Idx :
         /\ log[i].op = "mount" /\ log[i].path = ROOTDIR \o "/proc"
         /\ log[i].proc = "child" /\ log[i].ok

----------------------------------------------------------------------------
(* C8 *)

\* the calling process was sent back to main with 1 by the call at log
\* position i: a diagnostic was printed, nothing ran after it, no exec
AbortedAt(i) ==
    /\ i = Len(log)
    /\ phase[log[i].proc] \in {"returned", "terminated"}
    /\ rv[log[i].proc] = 1
    /\ Len(diag) > 0
    /\ diag[Len(diag)] = [proc |-> log[i].proc, msg |-> log[i].tag]
    /\ image[log[i].proc] = "launcher"

\* the process was sent back to main with 1 by its call at log position i:
\* a diagnostic was printed, the process made no call after it, no exec
ProcAbortedAt(i) ==
    /\ \A j \in (i + 1)..Len(log) : log[j].proc # log[i].proc
    /\ phase[log[i].proc] \in {"returned", "terminated"}
    /\ rv[log[i].proc] = 1
    /\ Len(diag) > 0
    /\ diag[Len(diag)] = [proc |-> log[i].proc, msg |-> log[i].tag]
    /\ image[log[i].proc] = "launcher"

\* C8 (as claimed): every failing mkdir, mount or remount of the setup,
\* the temp directory and the read-only remount of the root included, makes
\* secure_me return at once with a diagnostic.
C8_EveryMkdirMountFatal ==
    \A i \in Idx :
        (log[i].op \in {"mkdir", "mount", "remount"} /\ ~log[i].ok) => ProcAbortedAt(i)

----------------------------------------------------------------------------
(* C9 *)

\* C9 (as claimed): a copy whose source cannot be opened or read, or whose
\* destination cannot be created or written, returns failure; secure_me
\* prints the diagnostic and returns 1, so that the process exits with 1
\* and neither forks nor execs.
C9_CopyFailureFatal ==
    \A i \in Idx :
        (log[i].op = "fcopy" /\ ~log[i].ok) =>
            /\ log[i].ret = 0 - 1
            /\ AbortedAt(i)
            /\ Gone(log[i].proc) => ExitedWith(log[i].proc, 1)

----------------------------------------------------------------------------
(* C10 *)

\* C10: when the bind mount of an allow-listed system directory fails for
\* want of the host directory, it is the last call of the run: secure_me
\* returns 1 and the process exits with 1; no later system directory and
\* no /mnt/app is mounted, no file is copied, no fork is made.
C10_MissingSysDirAborts ==
    \A i \in Idx :
        (IsSysBind(log[i]) /\ ~log[i].ok /\ log[i].err = "ENOENT") =>
            /\ AbortedAt(i)
            /\ log[i].proc = "parent"
            /\ Gone("parent") => ExitedWith("parent", 1)
            /\ \A m \in mounts :
                 \/ m.at = ROOTDIR
                 \/ \E k \in 1..Len(SysDirs) :
                      /\ m.at = ROOTDIR \o SysDirs[k]
                      /\ \E j \in 1..(i - 1) : log[j].path = m.at /\ log[j].op = "mount"
            /\ files = {}
            /\ ForkCalls = {}
            /\ term["child"] = "none"

\* /lib64 is missing on the host: its bind mount failed and the launcher
\* has exited with 1
C10_Witness ==
    /\ ExitedWith("parent", 1)
    /\ \E i \in Idx :
         /\ IsSysBind(log[i]) /\ log[i].src = "/lib64"
         /\ ~log[i].ok /\ log[i].err = "ENOENT"

----------------------------------------------------------------------------
(* C11 *)

\* a call of the namespace part before unshare(CLONE_NEWNS): the unshare of
\* the user and pid namespaces, or an open or write of an identity file
IsNamespaceStep(e) ==
    \/ e.op = "unshare" /\ "CLONE_NEWUSER" \in e.flags
    \/ e.op \in {"open", "dprintf"}

FsOps == {"mount", "remount", "mkdir", "chmod", "symlink", "fcopy"}

\* C11: when a namespace step fails (unshare of the user and pid
\* namespaces, open or write of uid_map, setgroups or gid_map), secure_me
\* returns 1 at once and the process exits with 1; up to then the mount
\* namespace was not unshared and no mount, mkdir or copy was made.
C11_NamespaceFailureTouchesNothing ==
    \A i \in Idx :
        (IsNamespaceStep(log[i]) /\ ~log[i].ok) =>
            /\ AbortedAt(i)
            /\ log[i].proc = "parent"
            /\ Gone("parent") => ExitedWith("parent", 1)
            /\ \A j \in Idx :
                 /\ log[j].op \notin FsOps
                 /\ ~(log[j].op = "unshare" /\ "CLONE_NEWNS" \in log[j].flags)
            /\ "CLONE_NEWNS" \notin nspaces
            /\ mounts = {} /\ dirs = {} /\ files = {} /\ links = {}

\* the write of gid_map failed and the launcher has exited with 1
C11_Witness ==
    /\ ExitedWith("parent", 1)
    /\ \E i \in Idx :
         log[i].op = "dprintf" /\ log[i].path = "/proc/self/gid_map" /\ ~log[i].ok

----------------------------------------------------------------------------
(* C12 *)

\* log position i comes after the successful unshare of the mount namespace
AfterNewNs(i) ==
    \E j \in 1..(i - 1) :
        log[j].op = "unshare" /\ "CLONE_NEWNS" \in log[j].flags /\ log[j].ok

\* C12 (as claimed, with ROOTDIR itself allowed as the mount point of the
\* root): after the mount namespace is unshared every path created,
\* written, linked or mounted on lies under ROOTDIR, and nothing is created
\* or changed in a directory of the host.
C12_NothingOnHostChanged ==
    /\ \A i \in Idx :
         (AfterNewNs(i) /\ log[i].op \in FsOps) => Under(log[i].path, ROOTDIR)
    /\ hostmod = {}

\* C12 (amended): after the mount namespace is unshared every path created,
\* written, linked or mounted on lies under ROOTDIR (ROOTDIR itself only as
\* the mount point of the root tmpfs); the one directory of the host that
\* is changed is the application directory, in which mkdir and chmod of
\* /mnt/app/.tmp act through the writable bind mount.
C12_OnlyAppDirChanged ==
    /\ \A i \in Idx :
         (AfterNewNs(i) /\ log[i].op \in FsOps) =>
            /\ Under(log[i].path, ROOTDIR)
            /\ log[i].path = ROOTDIR => log[i].op \in {"mount", "remount"}
    /\ \A h \in hostmod :
         /\ h.host = appdir
         /\ h.path = ROOTDIR \o "/app/.tmp"
         /\ h.op \in {"mkdir", "chmod"}

\* .tmp was created in the application directory and the child has
\* entered the new root
C12_Witness ==
    /\ \E h \in hostmod : h.op = "mkdir" /\ h.host = "APPDIR"
    /\ root["child"] = ROOTDIR

----------------------------------------------------------------------------
(* C13 *)

\* the k-th step of the order claimed: unshare(user+pid), write uid_map,
\* write setgroups, write gid_map, unshare(mount namespace), mount the root
IsOrderStep(k, e) ==
    CASE k = 1 -> e.op = "unshare" /\ {"CLONE_NEWUSER", "CLONE_NEWPID"} \subseteq e.flags
      [] k = 2 -> e.op = "dprintf" /\ e.path = "/proc/self/uid_map"
      [] k = 3 -> e.op = "dprintf" /\ e.path = "/proc/self/setgroups"
      [] k = 4 -> e.op = "dprintf" /\ e.path = "/proc/self/gid_map"
      [] k = 5 -> e.op = "unshare" /\ "CLONE_NEWNS" \in e.flags
      [] OTHER -> e.op = "mount" /\ e.path = ROOTDIR

\* C13: each of the six steps is made only after the step before it
\* succeeded; gid_map is written only once "deny" is in setgroups; the
\* mount namespace is unshared, and any mount attempted, only with both
\* maps written.
C13_NamespaceOrder ==
    \A i \in Idx :
        /\ \A k \in 2..6 :
             IsOrderStep(k, log[i]) =>
                 \E j \in 1..(i - 1) : IsOrderStep(k - 1, log[j]) /\ log[j].ok
        /\ IsOrderStep(4, log[i]) =>
             /\ \E j \in 1..(i - 1) : IsOrderStep(3, log[j]) /\ log[j].ok
             /\ log[i].ok => setgroups = "deny"
        /\ (IsOrderStep(5, log[i]) \/ log[i].op \in {"mount", "remount"}) =>
             /\ uid_map = << << uid, uid, 1 >> >>
             /\ gid_map = << << gid, gid, 1 >> >>
             /\ \E a \in 1..(i - 1) : IsOrderStep(2, log[a]) /\ log[a].ok
             /\ \E b \in 1..(i - 1) : IsOrderStep(4, log[b]) /\ log[b].ok

\* all six steps were made and the root tmpfs is mounted
C13_Witness ==
    /\ \E m \in mounts : m.at = ROOTDIR /\ m.type = "tmpfs"
    /\ \E i \in Idx : IsOrderStep(6, log[i]) /\ log[i].ok

----------------------------------------------------------------------------
(* C14 *)

\* C14: setresgid is called only after setresuid succeeded in the same
\* process; a failing setresuid is the child's last call: it returns 1 to
\* main and exits with 1, with no setresgid and no execvp.
C14_UidBeforeGid ==
    \A i \in Idx :
        /\ log[i].op = "setresgid" =>
             \E j \in 1..(i - 1) :
                 log[j].op = "setresuid" /\ log[j].ok /\ log[j].proc = log[i].proc
        /\ (log[i].op = "setresuid" /\ ~log[i].ok) =>
             /\ ProcAbortedAt(i)
             /\ log[i].proc = "child"
             /\ Gone("child") => ExitedWith("child", 1)
             /\ \A j \in Idx : log[j].op \notin {"setresgid", "execvp"}

\* setresuid failed in the child, which has exited with 1
C14_Witness ==
    /\ ExitedWith("child", 1)
    /\ \E i \in Idx : log[i].op = "setresuid" /\ ~log[i].ok

----------------------------------------------------------------------------
(* C15 *)

CallsOf(p, op) == {i \in Idx : log[i].proc = p /\ log[i].op = op}

\* C15: after a successful fork the parent makes one call, waitpid, and
\* then exits: no mount, remount, chroot, chdir, setresuid, setresgid or
\* execvp of the parent follows the fork; the child makes no call before
\* the fork, never waits and never forks.
C15_DisjointPaths ==
    /\ Cardinality(CallsOf("parent", "waitpid")) <= 1
    /\ \A i \in Idx :
         (log[i].op = "fork" /\ log[i].ok) =>
            /\ \A j \in (i + 1)..Len(log) :
                 log[j].proc = "parent" => log[j].op = "waitpid"
            /\ \A j \in 1..i : log[j].proc = "parent"
            /\ Gone("parent") => Cardinality(CallsOf("parent", "waitpid")) = 1
    /\ CallsOf("child", "waitpid") = {}
    /\ CallsOf("child", "fork") = {}
    /\ CallsOf("parent", "execvp") = {}
    /\ (\E i \in Idx : log[i].proc = "child") => ForkDone

\* the child ran its whole part and the parent has waited and exited
C15_Witness ==
    /\ Gone("parent")
    /\ CallsOf("parent", "waitpid") # {}
    /\ \E i \in CallsOf("child", "setresgid") : log[i].ok

----------------------------------------------------------------------------
(* C16 *)

\* C16: the parent is never gone while its child still runs, whether
\* waitpid returned the pid or an error; and once the child is gone the
\* parent eventually exits.
C16_ParentOutlivesChild ==
    /\ [](Gone("parent") /\ ForkDone => Gone("child"))
    /\ [](\A i \in CallsOf("parent", "waitpid") : Gone("child"))
    /\ (Gone("child") ~> ExitedWith("parent", 0))

\* waitpid returned an error, the child being gone, and the parent exited
C16_Witness ==
    /\ Gone("child")
    /\ ExitedWith("parent", 0)
    /\ \E i \in CallsOf("parent", "waitpid") : ~log[i].ok

----------------------------------------------------------------------------
(* C17 *)

RoFlags == {MS_BIND, MS_RDONLY, MS_NODEV, MS_NOSUID}

\* log[i], log[i+1], log[i+2] are the successful mkdir, bind mount and
\* remount of the host directory src at ROOTDIR dir, both mounts made with
\* at least the flags must and none of the flags mustnot
TwoPhaseAt(i, src, dir, must, mustnot) ==
    /\ i + 2 <= Len(log)
    /\ log[i].op = "mkdir" /\ log[i].path = ROOTDIR \o dir /\ log[i].ok
    /\ log[i + 1].op = "mount" /\ log[i + 1].path = ROOTDIR \o dir
    /\ log[i + 1].src = src /\ log[i + 1].ok
    /\ must \subseteq log[i + 1].flags /\ log[i + 1].flags \cap mustnot = {}
    /\ MS_REMOUNT \notin log[i + 1].flags
    /\ log[i + 2].op = "remount" /\ log[i + 2].path = ROOTDIR \o dir
    /\ log[i + 2].src = src /\ log[i + 2].ok
    /\ must \cup {MS_REMOUNT} \subseteq log[i + 2].flags
    /\ log[i + 2].flags \cap mustnot = {}

\* position of the mkdir of ROOTDIR dir in the log
MkdirPos(dir) == CHOOSE i \in Idx : log[i].op = "mkdir" /\ log[i].path = ROOTDIR \o dir

\* C17: once the root filesystem part has run to the fork, each of /usr,
\* /bin, /sbin, /lib, /lib64 was mounted by mkdir, bind mount and remount
\* with bind, read-only, no-device and no-setuid in both mounts, in that
\* order of directories; the application directory was bound at /mnt/app
\* after the five, with no-device and no-setuid and without read-only; and
\* at no time is any other host directory bind-mounted.
C17_BindMountsReadOnly ==
    /\ (\E f \in Idx : log[f].op = "fork") =>
          /\ \A k \in 1..Len(SysDirs) :
               \E i \in Idx : TwoPhaseAt(i, SysDirs[k], SysDirs[k], RoFlags, {})
          /\ \A k \in 1..(Len(SysDirs) - 1) :
               MkdirPos(SysDirs[k]) < MkdirPos(SysDirs[k + 1])
          /\ MkdirPos(SysDirs[Len(SysDirs)]) < MkdirPos("/app")
          /\ TwoPhaseAt(MkdirPos("/app"), appdir, "/app",
                        {MS_BIND, MS_NODEV, MS_NOSUID}, {MS_RDONLY})
          /\ \A k \in 1..Len(SysDirs) :
               \E m \in mounts :
                   /\ m.at = ROOTDIR \o SysDirs[k] /\ m.src = SysDirs[k]
                   /\ RoFlags \subseteq m.flags
    /\ \A i \in Idx :
         (log[i].op \in {"mount", "remount"} /\ MS_BIND \in log[i].flags) =>
            \/ log[i].src = appdir /\ log[i].path = ROOTDIR \o "/app"
            \/ \E k \in 1..Len(SysDirs) :
                 log[i].src = SysDirs[k] /\ log[i].path = ROOTDIR \o SysDirs[k]

\* the root filesystem is built and the fork was made
C17_Witness ==
    /\ ForkDone
    /\ \E m \in mounts : m.at = ROOTDIR \o "/app" /\ m.src = "APPDIR"
    /\ files # {}

----------------------------------------------------------------------------
(* C18 *)

\* log position i is the mkdir of a second application of the primitive to
\* a path on which a first application succeeded
SecondApplicationAt(i) ==
    /\ log[i].op = "mkdir"
    /\ \E j \in 1..(i - 3) :
         /\ log[j].op = "mkdir" /\ log[j].path = log[i].path /\ log[j].ok
         /\ log[j + 1].op = "mount" /\ log[j + 1].ok
         /\ log[j + 2].op = "remount" /\ log[j + 2].ok

\* the mount table holds one mount at path, as the remount at log
\* position j left it
MountStateOf(j, path) ==
    {m \in mounts : m.at = path} =
        {[at |-> path, src |-> log[j].src, type |-> log[j].type,
          flags |-> log[j].flags \ {MS_REMOUNT}]}

\* C18 (as claimed): applied again to a path on which it succeeded, the
\* mount primitive succeeds again.
C18_SecondApplicationSucceeds ==
    \A i \in Idx : SecondApplicationAt(i) => log[i].ok

\* C18 (amended): applied again to a path on which it succeeded, the mount
\* primitive fails at its mkdir with EEXIST, prints mkdir_bind_DIR and
\* makes the function return 1 without calling mount; the mount state
\* stays the one the first application left.
C18_SecondApplicationFails ==
    \A i \in Idx :
        SecondApplicationAt(i) =>
            /\ ~log[i].ok /\ log[i].err = "EEXIST"
            /\ AbortedAt(i)
            /\ MountStateOf(i - 1, log[i].path)
            /\ Cardinality({j \in Idx : log[j].op = "mount"
                                        /\ log[j].path = log[i].path}) = 1

\* the primitive succeeded on /mnt/usr and was applied to it again
C18_Witness ==
    \E i \in Idx : SecondApplicationAt(i) /\ log[i].path = ROOTDIR \o "/usr"

----------------------------------------------------------------------------
(* C19 *)

\* C19 (as claimed): once setresgid has succeeded in the child, secure_me
\* hands 0 to main, and the child does not end without having called
\* execvp on argv[2], once.
C19_ConfinedChildExecs ==
    (\E i \in CallsOf("child", "setresgid") : log[i].ok) =>
        /\ phase["child"] = "returned" => rv["child"] = 0
        /\ phase["child"] \in {"target", "terminated"} =>
             /\ Cardinality(ExecCalls("child")) = 1
             /\ \A i \in ExecCalls("child") : log[i].path = target

----------------------------------------------------------------------------
(* C20 *)

\* C20 (as claimed): with argc < 3 the launcher prints the usage banner and
\* makes no call at all: no unshare, mount, fork or execvp; secure_me is
\* entered and execvp called only with argv[1] and argv[2] present.
C20_UsageStops ==
    /\ argc < 3 =>
          /\ log = << >>
          /\ phase["parent"] # "main" =>
                \E k \in 1..Len(diag) : diag[k].msg = "Usage"
          /\ phase["parent"] \notin {"secure_me", "returned"}
    /\ \A i \in Idx : log[i].op = "execvp" => log[i].path # "NULL"

====
